---- MODULE Spec2Model ----
(***************************************************************************)
(* The two documentation-extraction scripts of the repository:             *)
(*   firecrawl-test.py     ("v1": crawl with markdown, format, write)      *)
(*   firecrawl-test-v2.py  ("v2": crawl for links, batch extraction with   *)
(*                          status polling, format, write)                 *)
(* and DocumentationCrawler.crawl_site, which neither main calls.           *)
(* The vendor service is the environment: every response it can give is    *)
(* drawn from a bounded set, and every call to it may raise.               *)
(* Python dicts are functions whose DOMAIN is the set of keys present;     *)
(* None (the failure value of batch_extract_and_watch) is the empty tuple. *)
(***************************************************************************)
EXTENDS Integers, Sequences, FiniteSets, TLC

VARIABLES
    script,              \* which script runs: "v1" or "v2"
    pc,                  \* position of main
    clock,               \* time.time(), in seconds
    crawl_response,      \* main: the crawl response
    all_urls,            \* v2 main: the URLs handed to batch extraction
    batch_response,      \* batch_extract_and_watch: the submission's response
    submissions,         \* history: calls of async_batch_scrape_urls so far
    queried_id,          \* history: the id the last status query was made
                         \* with (NoQuery when none was made)
    job_id,              \* batch_extract_and_watch: id of the submitted job
    start_time,          \* batch_extract_and_watch: start_time
    last_progress_time,  \* batch_extract_and_watch: last_progress_time
    status,              \* batch_extract_and_watch: the last status response
    stall_since,         \* history: time of the first poll of the current run of
                         \* polls reporting the same counts with
                         \* completed = total - 1 (NoTime when there is none)
    batch_log,           \* the log line batch_extract_and_watch ended with
    extraction_result,   \* v2 main: extraction_result (<<>> is None)
    pages,               \* the page list main formats
    idx,                 \* index of the next page to format
    processed_content,   \* processed_content / all_extracted_content
    file,                \* the output file: [exists, text]
    opens,               \* how often the output file was opened for writing
    io_error,            \* opening or writing the output file raised
    save_returned,       \* v2: what save_documentation returned, as Python
                         \* prints it ("not_called" before the call)
    uncaught,            \* an exception propagated out of main (traceback)
    exit_code,           \* process exit code (Running while main runs)
    site_pc,             \* crawl_site: "idle", "watching" or "returned"
    watcher,             \* crawl_site: the events the watcher yields, in order
    consumed,            \* crawl_site: how many of them the loop has taken
    crawl_data,          \* crawl_site: crawl_data
    current_credits,     \* crawl_site: current_credits
    site_log,            \* the log line crawl_site ended with
    site_result          \* what crawl_site returned: [none, data]

vars == <<script, pc, clock, crawl_response, all_urls, batch_response,
          submissions, queried_id, job_id, start_time,
          last_progress_time, status, stall_since, batch_log,
          extraction_result, pages, idx, processed_content, file, opens,
          io_error, save_returned, uncaught, exit_code, site_pc, watcher,
          consumed, crawl_data, current_credits, site_log, site_result>>

-----------------------------------------------------------------------------
(* Bounds of the model *)

MaxTotal == 2       \* largest page count a status response reports
MaxPages == 2       \* longest page list of a v1 crawl response
MaxEvents == 3      \* longest event stream of a crawl watcher

(* Program constants *)

max_wait_time == 300
StallSeconds == 120
SleepSeconds == 5

Running == 0 - 1     \* exit_code while main has not ended
NoTime == 0 - 1      \* stall_since when no stall is under way
NoJob == "None"      \* job_id before a job was submitted
NoQuery == "no query" \* queried_id before the first status query
None == <<>>         \* Python's None as a return value

\* Time a vendor call may take, in seconds.
Latencies == {0, 5}

-----------------------------------------------------------------------------
(* Python dicts *)

EmptyDict == [k \in {} |-> 0]

\* dict.get(k, def)
Get(d, k, def) == IF k \in DOMAIN d THEN d[k] ELSE def

\* All sequences over S of length 0..n
SeqsUpTo(S, n) == UNION {[1..k -> S] : k \in 0..n}

-----------------------------------------------------------------------------
(* What the vendor can return *)

PageA == [extract |-> "A", markdown |-> "mA",
          metadata |-> [title |-> "T1", sourceURL |-> "u1"]]
PageB == [extract |-> "B", metadata |-> [sourceURL |-> "u2"]]
PageM == [markdown |-> "mM", metadata |-> [title |-> "T3"]]
PageN == [extract |-> "", markdown |-> "",
          metadata |-> [title |-> "T4", sourceURL |-> "u4"]]

Pages == {PageA, PageB, PageM, PageN}

\* v1: crawl_url with formats ['markdown']
CrawlResponsesV1 ==
    {EmptyDict, [success |-> FALSE], [success |-> TRUE]}
    \cup {[success |-> TRUE, data |-> d] : d \in SeqsUpTo(Pages, MaxPages)}

\* v2: crawl_url with formats ['links']; only metadata.sourceURL is read
LinkPages == {[metadata |-> [sourceURL |-> "u1"]], [metadata |-> EmptyDict]}

CrawlResponsesV2 ==
    {EmptyDict, [success |-> FALSE], [success |-> TRUE, data |-> <<>>]}
    \cup {[success |-> TRUE, data |-> <<p>>] : p \in LinkPages}

JobIds == {"job-1"}

\* async_batch_scrape_urls: no field at all, a refusal, a job with its id,
\* or a success that names no id (job_id is then None)
BatchResponses ==
    {EmptyDict, [success |-> FALSE], [success |-> TRUE]}
    \cup {[success |-> TRUE, id |-> j] : j \in JobIds}

\* data and creditsUsed of a status response
PartialPayloads ==
    {[data |-> <<PageB, PageN, PageA>>, creditsUsed |-> 1],
     [data |-> <<PageM, PageN>>, creditsUsed |-> 2]}

\* ... which may both be absent
Payloads == {EmptyDict} \cup PartialPayloads

\* completed and total of a status response: completed <= total <= MaxTotal
Counts == {ct \in (0..MaxTotal) \X (0..MaxTotal) : ct[1] <= ct[2]}

\* The counts of a response that ends the job: all pages done, or one missing
FinalCounts == {<<MaxTotal, MaxTotal>>, <<MaxTotal - 1, MaxTotal>>}

\* What check_batch_scrape_status can return: a response with no field at
\* all, a job under way, or a job that ended.
StatusResponses ==
    {EmptyDict}
    \cup {[status |-> "scraping", completed |-> ct[1], total |-> ct[2]] @@ p :
            ct \in Counts, p \in PartialPayloads}
    \cup {[status |-> s, completed |-> ct[1], total |-> ct[2]] @@ p :
            s \in {"completed", "failed"}, ct \in FinalCounts, p \in Payloads}

\* A job whose page count grows while it runs: at every poll one page is
\* missing, of a total that may have risen; or the job completed.
GrowingJobResponses ==
    {[status |-> "scraping", completed |-> n - 1, total |-> n,
      data |-> <<PageB, PageN, PageA>>, creditsUsed |-> 1] : n \in 2..(MaxTotal + 1)}
    \cup {[status |-> "completed", completed |-> MaxTotal + 1, total |-> MaxTotal + 1,
           data |-> <<PageB, PageN, PageA>>, creditsUsed |-> 1]}

\* The events a crawl watcher can yield: pages (with data, with an empty
\* data list, without data), completion, failure, and one without a type
WatcherEvents ==
    {[type |-> "crawl.page", data |-> <<PageA>>, creditsUsed |-> 1],
     [type |-> "crawl.page", data |-> <<PageB, PageM>>],
     [type |-> "crawl.page", data |-> <<>>, creditsUsed |-> 2],
     [type |-> "crawl.page"],
     [type |-> "crawl.completed"],
     [type |-> "crawl.failed", error |-> "e"],
     EmptyDict}

WatcherStreams == SeqsUpTo(WatcherEvents, MaxEvents)

\* Variant: the key's presence is tested, not its value.
CrawlSucceeded_KeyPresent(resp) == "success" \in DOMAIN resp

\* crawl_response.get('success') as a condition
CrawlSucceeded(resp) == Get(resp, "success", FALSE)

-----------------------------------------------------------------------------
(* Page formatting and the output file *)

\* Variant: the title and the URL change places.
FormatBlock_UrlFirst(title, source_url, content) ==
    <<"# ", source_url, "\nSource: ", title, "\n\n", content, "\n\n---\n">>

\* The f-string of process_page and of v1's loop, as its pieces in order.
FormatBlock(title, source_url, content) ==
    <<"# ", title, "\nSource: ", source_url, "\n\n", content, "\n\n---\n">>

\* Variant: a page without extract is formatted too.
process_page_NoContentCheck(page) ==
    LET extracted_content == Get(page, "extract", "")
        metadata == Get(page, "metadata", EmptyDict)
        source_url == Get(metadata, "sourceURL", "Unknown URL")
        title == Get(metadata, "title", "Untitled")
    IN  FormatBlock(title, source_url, extracted_content)

\* v2: DocumentationCrawler.process_page; None when there is no extract
process_page(page) ==
    LET extracted_content == Get(page, "extract", "")
        metadata == Get(page, "metadata", EmptyDict)
        source_url == Get(metadata, "sourceURL", "Unknown URL")
        title == Get(metadata, "title", "Untitled")
    IN  IF extracted_content = "" THEN None
        ELSE FormatBlock(title, source_url, extracted_content)

\* v1: the body of the loop over crawl_data; None when there is no markdown
format_page_v1(page) ==
    LET markdown_content == Get(page, "markdown", "")
        metadata == Get(page, "metadata", EmptyDict)
        source_url == Get(metadata, "sourceURL", "Unknown URL")
        title == Get(metadata, "title", "Untitled")
    IN  IF markdown_content = "" THEN None
        ELSE FormatBlock(title, source_url, markdown_content)

\* Variant: only the first block is written.
JoinNewline_FirstOnly(content) ==
    IF Len(content) = 0 THEN <<>> ELSE content[1]

\* "\n".join(content), as the pieces written
RECURSIVE JoinNewline(_)
JoinNewline(content) ==
    IF Len(content) = 0 THEN <<>>
    ELSE IF Len(content) = 1 THEN content[1]
    ELSE content[1] \o <<"\n">> \o JoinNewline(Tail(content))

Header == <<"# Technical Documentation Overview\n\n", "Generated with Firecrawl\n\n">>

\* The three f.write calls of save_documentation and of v1's main
FileText(content) == Header \o JoinNewline(content)

\* The output file left by an earlier run
OldFile == [exists |-> TRUE, text |-> <<"old">>]

\* How opening and writing the output file can go.
IoOutcomes == {"ok", "open_fails", "write_fails"}

\* The file after open(..., "w") and the writes, by outcome. A failing write
\* leaves the truncated file with the k writes that were done.
FileAfter(old, content, io, k) ==
    IF io = "ok" THEN [exists |-> TRUE, text |-> FileText(content)]
    ELSE IF io = "open_fails" THEN old
    ELSE [exists |-> TRUE, text |-> SubSeq(Header, 1, k)]

\* Variant: save_documentation reports success whatever happened.
save_documentation_AlwaysTrue(io) == TRUE

\* v2: the value save_documentation returns: True after the writes, False
\* from its except clause
save_documentation(io) == (io = "ok")

-----------------------------------------------------------------------------
(* The polling loop of batch_extract_and_watch *)

\* Variant: the timeout is measured from last_progress_time, not start_time.
PollOutcome_TimeoutFromProgress(st, completed, total, now, start, last_progress) ==
    IF st = "completed" THEN "completed"
    ELSE IF st = "failed" THEN "failed"
    ELSE IF completed > 0 /\ completed = total - 1
              /\ now - last_progress > StallSeconds THEN "stuck"
    ELSE IF now - last_progress > max_wait_time THEN "timeout"
    ELSE "sleep"

\* Variant: a 'failed' status is not looked at.
PollOutcome_IgnoresFailed(st, completed, total, now, start, last_progress) ==
    IF st = "completed" THEN "completed"
    ELSE IF completed > 0 /\ completed = total - 1
              /\ now - last_progress > StallSeconds THEN "stuck"
    ELSE IF now - start > max_wait_time THEN "timeout"
    ELSE "sleep"

\* Variant: the overall timeout is checked before the status.
PollOutcome_TimeoutFirst(st, completed, total, now, start, last_progress) ==
    IF now - start > max_wait_time THEN "timeout"
    ELSE IF st = "completed" THEN "completed"
    ELSE IF st = "failed" THEN "failed"
    ELSE IF completed > 0 /\ completed = total - 1
              /\ now - last_progress > StallSeconds THEN "stuck"
    ELSE "sleep"

\* What one pass of the loop decides after the status query returned at
\* time now: "completed", "failed", "stuck", "timeout", or "sleep".
PollOutcome(st, completed, total, now, start, last_progress) ==
    IF st = "completed" THEN "completed"
    ELSE IF st = "failed" THEN "failed"
    ELSE IF completed > 0 /\ completed = total - 1
              /\ now - last_progress > StallSeconds THEN "stuck"
    ELSE IF now - start > max_wait_time THEN "timeout"
    ELSE "sleep"

\* Variant: last_progress_time is reset on every pass.
NextProgressTime_AlwaysReset(completed, total, now, last_progress) == now

\* last_progress_time after one pass of the loop
NextProgressTime(completed, total, now, last_progress) ==
    IF completed > 0 /\ completed = total - 1 THEN last_progress ELSE now

\* Variant: nothing is returned when the loop was left.
ReturnValue_None(st) == None

\* Variant: the credit total is read from the wrong field.
ReturnValue_WrongCredits(st) == <<Get(st, "data", <<>>), Get(st, "total", 0)>>

\* The value returned after the loop: (status.get('data', []), total_credits)
ReturnValue(st) == <<Get(st, "data", <<>>), Get(st, "creditsUsed", 0)>>

\* History: since when the vendor reports these same counts at total - 1
Stalling(st) ==
    /\ Get(st, "status", "None") \notin {"completed", "failed"}
    /\ Get(st, "completed", 0) = Get(st, "total", 0) - 1

SameCounts(a, b) ==
    /\ Get(a, "completed", 0) = Get(b, "completed", 0)
    /\ Get(a, "total", 0) = Get(b, "total", 0)

NextStallSince(prev, since, st, now) ==
    IF ~Stalling(st) THEN NoTime
    ELSE IF since # NoTime /\ SameCounts(prev, st) THEN since
    ELSE now

-----------------------------------------------------------------------------
(* Initial state: main has not made its first call *)

Init ==
    /\ script \in {"v1", "v2"}
    /\ pc = "start"
    /\ clock = 0
    /\ crawl_response = EmptyDict
    /\ all_urls = <<>>
    /\ batch_response = EmptyDict
    /\ submissions = 0
    /\ queried_id = NoQuery
    /\ job_id = NoJob
    /\ start_time = 0
    /\ last_progress_time = 0
    /\ status = EmptyDict
    /\ stall_since = NoTime
    /\ batch_log = "none"
    /\ extraction_result = None
    /\ pages = <<>>
    /\ idx = 1
    /\ processed_content = <<>>
    /\ file = OldFile
    /\ opens = 0
    /\ io_error = FALSE
    /\ save_returned = "not_called"
    /\ uncaught = FALSE
    /\ exit_code = Running
    /\ site_pc = "idle"
    /\ watcher = <<>>
    /\ consumed = 0
    /\ crawl_data = <<>>
    /\ current_credits = 0
    /\ site_log = "none"
    /\ site_result = [none |-> TRUE, data |-> <<>>]

\* sys.exit(code), or main running off its end (code 0)
Exit(code) ==
    /\ pc' = "exit"
    /\ exit_code' = code

batch_locals == <<batch_response, submissions, queried_id, job_id, start_time,
                  last_progress_time, status, stall_since, batch_log>>
format_vars == <<pages, idx, processed_content>>
file_vars == <<file, opens, io_error, save_returned>>
site_vars == <<site_pc, watcher, consumed, crawl_data, current_credits, site_log,
               site_result>>

\* batch_extract_and_watch returns: its frame is gone; the status response
\* of the final poll and its history stay on record.
Return(value, log) ==
    /\ extraction_result' = value
    /\ batch_log' = log
    /\ job_id' = NoJob
    /\ start_time' = 0
    /\ last_progress_time' = 0
    /\ pc' = "returned"

-----------------------------------------------------------------------------
(* firecrawl-test-v2.py *)

\* page['metadata']['sourceURL'] raises KeyError when a key is missing
HasSourceURL(page) ==
    "metadata" \in DOMAIN page /\ "sourceURL" \in DOMAIN page.metadata

\* main: the crawl for URLs, the success check and the URL list
CrawlV2 ==
    /\ script = "v2" /\ pc = "start"
    /\ \E resp \in CrawlResponsesV2 :
        /\ crawl_response' = resp
        /\ IF ~CrawlSucceeded(resp)
           THEN Exit(1) /\ UNCHANGED <<all_urls, uncaught>>
           ELSE LET data == Get(resp, "data", <<>>) IN
                IF \A i \in 1..Len(data) : HasSourceURL(data[i])
                THEN /\ all_urls' = [i \in 1..Len(data) |-> data[i].metadata.sourceURL]
                     /\ pc' = "submit"
                     /\ UNCHANGED <<uncaught, exit_code>>
                ELSE Exit(1) /\ uncaught' = TRUE /\ UNCHANGED all_urls
    /\ UNCHANGED <<site_vars, script, clock, batch_locals, extraction_result, format_vars, file_vars>>

\* main: crawl_url raises; nothing in v2's main catches it
CrawlV2Raises ==
    /\ script = "v2" /\ pc = "start"
    /\ Exit(1) /\ uncaught' = TRUE
    /\ UNCHANGED <<site_vars, script, clock, crawl_response, all_urls, batch_locals,
                   extraction_result, format_vars, file_vars>>

\* Variant: the loop is entered whatever the submission's response says.
Submit_IgnoresSuccess ==
    /\ script = "v2" /\ pc = "submit"
    /\ \E lat \in Latencies, resp \in BatchResponses :
        /\ clock' = clock + lat
        /\ batch_response' = resp
        /\ submissions' = submissions + 1
        /\ start_time' = clock
        /\ job_id' = Get(resp, "id", NoJob)
        /\ last_progress_time' = clock'
        /\ pc' = "polling"
        /\ UNCHANGED <<status, stall_since, batch_log, extraction_result>>
    /\ UNCHANGED <<site_vars, script, crawl_response, all_urls, queried_id, format_vars,
                   file_vars, uncaught, exit_code>>

\* batch_extract_and_watch up to the loop: start the batch job
Submit ==
    /\ script = "v2" /\ pc = "submit"
    /\ \E lat \in Latencies, resp \in BatchResponses :
        /\ clock' = clock + lat
        /\ batch_response' = resp
        /\ submissions' = submissions + 1
        /\ IF ~Get(resp, "success", FALSE)
           THEN /\ Return(None, "not_started")
                /\ UNCHANGED <<status, stall_since>>
           ELSE /\ start_time' = clock
                /\ job_id' = Get(resp, "id", NoJob)
                /\ last_progress_time' = clock'
                /\ pc' = "polling"
                /\ UNCHANGED <<status, stall_since, batch_log, extraction_result>>
    /\ UNCHANGED <<site_vars, script, crawl_response, all_urls, queried_id, format_vars,
                   file_vars, uncaught, exit_code>>

\* async_batch_scrape_urls raises: caught, None is returned
SubmitRaises ==
    /\ script = "v2" /\ pc = "submit"
    /\ submissions' = submissions + 1
    /\ Return(None, "error")
    /\ UNCHANGED <<site_vars, script, clock, crawl_response, all_urls, batch_response,
                   queried_id, status, stall_since, format_vars, file_vars,
                   uncaught, exit_code>>

\* One pass of the loop: the status query, the checks, and the sleep or the
\* return that follows. The query returns at time now; the time.time() reads
\* of the checks that follow it see that same time. The vendor answers with
\* one of the given responses.
PollWith(responses) ==
    /\ script = "v2" /\ pc = "polling"
    /\ \E lat \in Latencies, resp \in responses :
        LET now == clock + lat
            completed == Get(resp, "completed", 0)
            total == Get(resp, "total", 0)
            outcome == PollOutcome(Get(resp, "status", "None"), completed, total,
                                   now, start_time, last_progress_time)
        IN  /\ queried_id' = job_id
            /\ status' = resp
            /\ stall_since' = NextStallSince(status, stall_since, resp, now)
            /\ IF outcome = "sleep"
               THEN /\ last_progress_time' =
                          NextProgressTime(completed, total, now, last_progress_time)
                    /\ clock' = now + SleepSeconds
                    /\ UNCHANGED <<pc, job_id, start_time, batch_log, extraction_result>>
               ELSE /\ clock' = now
                    /\ IF outcome = "failed"
                       THEN Return(None, "failed")
                       ELSE Return(ReturnValue(resp), outcome)
    /\ UNCHANGED <<site_vars, script, crawl_response, all_urls, batch_response, submissions,
                   format_vars, file_vars, uncaught, exit_code>>

\* A pass of the loop, with any status response
Poll == PollWith(StatusResponses)

\* A pass of the loop while the vendor reports a job that grows
PollGrowingJob == PollWith(GrowingJobResponses)

\* check_batch_scrape_status raises: caught, None is returned. This pass
\* got no status response, so none stays on record.
PollRaises ==
    /\ script = "v2" /\ pc = "polling"
    /\ queried_id' = job_id
    /\ Return(None, "error")
    /\ status' = EmptyDict
    /\ stall_since' = NoTime
    /\ UNCHANGED <<site_vars, script, clock, crawl_response, all_urls, batch_response,
                   submissions, format_vars, file_vars, uncaught, exit_code>>

\* Variant: main goes on to format whatever batch_extract_and_watch returned.
CheckResult_IgnoresNone ==
    /\ script = "v2" /\ pc = "returned"
    /\ pages' = IF extraction_result = None THEN <<>> ELSE extraction_result[1]
    /\ idx' = 1
    /\ processed_content' = <<>>
    /\ pc' = "formatting"
    /\ UNCHANGED <<site_vars, script, clock, crawl_response, all_urls, batch_locals,
                   extraction_result, file_vars, uncaught, exit_code>>

\* main: if not extraction_result: sys.exit(1); else unpack it
CheckResult ==
    /\ script = "v2" /\ pc = "returned"
    /\ IF extraction_result = None
       THEN Exit(1) /\ UNCHANGED format_vars
       ELSE /\ pages' = extraction_result[1]
            /\ idx' = 1
            /\ processed_content' = <<>>
            /\ pc' = "formatting"
            /\ UNCHANGED exit_code
    /\ UNCHANGED <<site_vars, script, clock, crawl_response, all_urls, batch_locals,
                   extraction_result, file_vars, uncaught>>

\* main: one pass of the loop over extracted_data
FormatPageV2 ==
    /\ script = "v2" /\ pc = "formatting" /\ idx <= Len(pages)
    /\ LET content == process_page(pages[idx]) IN
         processed_content' = IF content # None THEN Append(processed_content, content)
                              ELSE processed_content
    /\ idx' = idx + 1
    /\ UNCHANGED <<site_vars, script, pc, clock, crawl_response, all_urls, batch_locals,
                   extraction_result, pages, file_vars, uncaught, exit_code>>

\* Variant: the document is saved also when no page yielded a block.
CheckContentV2_AlwaysSaves ==
    /\ script = "v2" /\ pc = "formatting" /\ idx > Len(pages)
    /\ pc' = "saving"
    /\ UNCHANGED <<site_vars, script, clock, crawl_response, all_urls, batch_locals,
                   extraction_result, format_vars, file_vars, uncaught, exit_code>>

\* main: if not processed_content: sys.exit(1)
CheckContentV2 ==
    /\ script = "v2" /\ pc = "formatting" /\ idx > Len(pages)
    /\ IF processed_content = <<>>
       THEN Exit(1)
       ELSE pc' = "saving" /\ UNCHANGED exit_code
    /\ UNCHANGED <<site_vars, script, clock, crawl_response, all_urls, batch_locals,
                   extraction_result, format_vars, file_vars, uncaught>>

\* main: save_documentation and what follows it
SaveV2 ==
    /\ script = "v2" /\ pc = "saving"
    /\ \E io \in IoOutcomes, k \in 0..2 :
        /\ io # "write_fails" => k = 0
        /\ file' = FileAfter(file, processed_content, io, k)
        /\ opens' = IF io = "open_fails" THEN opens ELSE opens + 1
        /\ io_error' = (io # "ok")
        /\ save_returned' = IF save_documentation(io) THEN "True" ELSE "False"
        /\ Exit(IF save_documentation(io) THEN 0 ELSE 1)
    /\ UNCHANGED <<site_vars, script, clock, crawl_response, all_urls, batch_locals,
                   extraction_result, format_vars, uncaught>>

-----------------------------------------------------------------------------
(* firecrawl-test.py *)

v2_vars == <<all_urls, batch_locals, extraction_result>>

\* main: the crawl, the success check and the empty-data check
CrawlV1 ==
    /\ script = "v1" /\ pc = "start"
    /\ \E resp \in CrawlResponsesV1 :
        /\ crawl_response' = resp
        /\ IF ~CrawlSucceeded(resp) \/ Get(resp, "data", <<>>) = <<>>
           THEN Exit(1) /\ UNCHANGED format_vars
           ELSE /\ pages' = Get(resp, "data", <<>>)
                /\ idx' = 1
                /\ processed_content' = <<>>
                /\ pc' = "formatting"
                /\ UNCHANGED exit_code
    /\ UNCHANGED <<site_vars, script, clock, v2_vars, file_vars, uncaught>>

\* main: crawl_url raises; the except clause prints and exits 1
CrawlV1Raises ==
    /\ script = "v1" /\ pc = "start"
    /\ Exit(1)
    /\ UNCHANGED <<site_vars, script, clock, crawl_response, v2_vars, format_vars,
                   file_vars, uncaught>>

\* main: one pass of the loop over crawl_data
FormatPageV1 ==
    /\ script = "v1" /\ pc = "formatting" /\ idx <= Len(pages)
    /\ LET content == format_page_v1(pages[idx]) IN
         processed_content' = IF content # None THEN Append(processed_content, content)
                              ELSE processed_content
    /\ idx' = idx + 1
    /\ UNCHANGED <<site_vars, script, pc, clock, crawl_response, v2_vars, pages,
                   file_vars, uncaught, exit_code>>

\* main: if all_extracted_content: ... else: print; main then ends
CheckContentV1 ==
    /\ script = "v1" /\ pc = "formatting" /\ idx > Len(pages)
    /\ IF processed_content = <<>>
       THEN Exit(0)
       ELSE pc' = "saving" /\ UNCHANGED exit_code
    /\ UNCHANGED <<site_vars, script, clock, crawl_response, v2_vars, format_vars,
                   file_vars, uncaught>>

\* main: open and write the file; an error is caught and exits 1
SaveV1 ==
    /\ script = "v1" /\ pc = "saving"
    /\ \E io \in IoOutcomes, k \in 0..2 :
        /\ io # "write_fails" => k = 0
        /\ file' = FileAfter(file, processed_content, io, k)
        /\ opens' = IF io = "open_fails" THEN opens ELSE opens + 1
        /\ io_error' = (io # "ok")
        /\ Exit(IF io = "ok" THEN 0 ELSE 1)
    /\ UNCHANGED <<site_vars, script, clock, crawl_response, v2_vars, format_vars,
                   save_returned, uncaught>>

-----------------------------------------------------------------------------
(* DocumentationCrawler.crawl_site, which main does not call *)

main_vars == <<script, pc, clock, crawl_response, v2_vars, format_vars,
               file_vars, uncaught, exit_code>>

\* Variant: the pages of an update are put before those already there.
AfterUpdate_Prepends(data, credits, update) ==
    LET page_data == Get(update, "data", <<>>) IN
    IF Get(update, "type", "None") = "crawl.page" /\ page_data # <<>>
    THEN <<page_data \o data, credits + Get(update, "creditsUsed", 0)>>
    ELSE <<data, credits>>

\* One pass of the loop over the watcher, for an update that is not
\* 'crawl.failed': crawl_data and current_credits after it
AfterUpdate(data, credits, update) ==
    LET page_data == Get(update, "data", <<>>) IN
    IF Get(update, "type", "None") = "crawl.page" /\ page_data # <<>>
    THEN <<data \o page_data, credits + Get(update, "creditsUsed", 0)>>
    ELSE <<data, credits>>

\* crawl_site returns: None, or the list
SiteReturn(is_none, data, log) ==
    /\ site_result' = [none |-> is_none, data |-> data]
    /\ site_log' = log
    /\ site_pc' = "returned"

\* crawl_url_and_watch returns a watcher; the loop is about to start
CrawlSiteCall ==
    /\ site_pc = "idle"
    /\ \E stream \in WatcherStreams : watcher' = stream
    /\ consumed' = 0
    /\ crawl_data' = <<>>
    /\ current_credits' = 0
    /\ site_pc' = "watching"
    /\ UNCHANGED <<main_vars, site_log, site_result>>

\* crawl_url_and_watch raises: caught, None is returned
CrawlSiteCallRaises ==
    /\ site_pc = "idle"
    /\ SiteReturn(TRUE, <<>>, "error")
    /\ UNCHANGED <<main_vars, watcher, consumed, crawl_data, current_credits>>

\* One pass of the loop: the watcher yields its next event
WatchUpdate ==
    /\ site_pc = "watching" /\ consumed < Len(watcher)
    /\ LET update == watcher[consumed + 1] IN
        /\ consumed' = consumed + 1
        /\ IF Get(update, "type", "None") = "crawl.failed"
           THEN /\ SiteReturn(TRUE, <<>>, "failed")
                /\ UNCHANGED <<crawl_data, current_credits>>
           ELSE /\ crawl_data' = AfterUpdate(crawl_data, current_credits, update)[1]
                /\ current_credits' = AfterUpdate(crawl_data, current_credits, update)[2]
                /\ UNCHANGED <<site_pc, site_log, site_result>>
    /\ UNCHANGED <<main_vars, watcher>>

\* The watcher raises instead of yielding: caught, None is returned
WatchRaises ==
    /\ site_pc = "watching"
    /\ SiteReturn(TRUE, <<>>, "error")
    /\ UNCHANGED <<main_vars, watcher, consumed, crawl_data, current_credits>>

\* The watcher is exhausted: the loop ends and crawl_data is returned
WatchEnds ==
    /\ site_pc = "watching" /\ consumed = Len(watcher)
    /\ SiteReturn(FALSE, crawl_data, "success")
    /\ UNCHANGED <<main_vars, watcher, consumed, crawl_data, current_credits>>

NextCrawlSite ==
    CrawlSiteCall \/ CrawlSiteCallRaises \/ WatchUpdate \/ WatchRaises \/ WatchEnds

-----------------------------------------------------------------------------

Next ==
    \/ CrawlV2 \/ CrawlV2Raises \/ Submit \/ SubmitRaises \/ Poll \/ PollRaises
    \/ CheckResult \/ FormatPageV2 \/ CheckContentV2 \/ SaveV2
    \/ CrawlV1 \/ CrawlV1Raises \/ FormatPageV1 \/ CheckContentV1 \/ SaveV1

Spec == Init /\ [][Next]_vars

\* firecrawl-test-v2.py against a vendor whose batch job grows
NextGrowingJob ==
    \/ CrawlV2 \/ CrawlV2Raises \/ Submit \/ SubmitRaises \/ PollGrowingJob
    \/ PollRaises \/ CheckResult \/ FormatPageV2 \/ CheckContentV2 \/ SaveV2

InitV2 == Init /\ script = "v2"

GrowingJobSpec == InitV2 /\ [][NextGrowingJob]_vars

\* A call of crawl_site on a crawler of firecrawl-test-v2.py
CrawlSiteSpec == InitV2 /\ [][NextCrawlSite]_vars

-----------------------------------------------------------------------------
(* Properties *)

IsTerminal(st) == Get(st, "status", "None") \in {"completed", "failed"}

\* data and creditsUsed of a status response, with the defaults [] and 0
DataOf(st) == IF "data" \in DOMAIN st THEN st.data ELSE <<>>
CreditsOf(st) == IF "creditsUsed" \in DOMAIN st THEN st.creditsUsed ELSE 0

\* C1: a poll that reports status 'completed' ends the loop at that poll,
\* without a further sleep, and the function returns the data list and the
\* creditsUsed value of that very response ([] and 0 when absent).
C1_CompletedReturnsFinalStatus ==
    [][(pc = "polling" /\ Get(status', "status", "None") = "completed")
        => /\ pc' = "returned"
           /\ batch_log' = "completed"
           /\ clock' - clock \in Latencies
           /\ extraction_result' = <<DataOf(status'), CreditsOf(status')>>]_vars

\* C1 witness: the job completed after earlier polls had slept, and the
\* data and credits of the completing response were returned.
C1_Witness ==
    /\ pc = "returned" /\ batch_log = "completed"
    /\ clock >= 2 * SleepSeconds
    /\ extraction_result = <<<<PageB, PageN, PageA>>, 1>>

\* C2: while no poll reports 'completed' or 'failed' and every status query
\* returns, the loop stops: every pass that sleeps moves the clock on by at
\* least the 5 s of the sleep, no pass sleeps after a status query made more
\* than 300 s after the start, and a pass made after that returns the data
\* and creditsUsed of its status response (not None).
C2_TimeoutStep ==
    (pc = "polling" /\ batch_log' # "error")
    => IF pc' = "polling"
       THEN /\ clock' >= clock + SleepSeconds
            /\ (clock' - SleepSeconds) - start_time <= max_wait_time
            /\ start_time' = start_time
       ELSE (~IsTerminal(status') /\ clock' - start_time > max_wait_time)
            => /\ pc' = "returned"
               /\ batch_log' \in {"stuck", "timeout"}
               /\ extraction_result' = <<DataOf(status'), CreditsOf(status')>>

\* C2: every step of every run is such a pass or leaves the loop's
\* timing alone.
C2_TimeoutTerminates == [][C2_TimeoutStep]_vars

\* C2 witness: the loop was left through the overall timeout with a partial
\* result.
C2_Witness ==
    /\ pc = "returned" /\ batch_log = "timeout"
    /\ clock > max_wait_time
    /\ extraction_result = <<<<PageM, PageN>>, 2>>

\* The vendor has reported the same counts, at completed = total - 1, without
\* a terminal status for more than 120 s at time t.
StalledAt(t) ==
    /\ Stalling(status)
    /\ stall_since # NoTime
    /\ t - stall_since > StallSeconds

\* C3 as claimed (every total >= 1): a poll that sees such a stall ends the
\* loop through the stuck-on-last-page rule.
C3_StallAnyTotal ==
    /\ (pc = "polling") => ~StalledAt(clock - SleepSeconds)
    /\ (batch_log = "timeout") => ~StalledAt(clock)

\* C3 amended (every total >= 2, so completed >= 1): a poll that sees the job
\* stalled at completed = total - 1 for more than 120 s ends the loop through
\* the stuck-on-last-page rule, also when the timeout has passed, and the
\* data and creditsUsed of that poll's response are returned.
C3_StallFromTwoPages ==
    LET last_page == Get(status, "completed", 0) > 0 IN
    /\ (pc = "polling" /\ last_page) => ~StalledAt(clock - SleepSeconds)
    /\ (batch_log = "timeout" /\ last_page) => ~StalledAt(clock)
    /\ (batch_log = "stuck")
        => /\ pc # "polling"
           /\ last_page /\ Stalling(status)
           /\ extraction_result = <<DataOf(status), CreditsOf(status)>>

\* C3 witness: the stuck-on-last-page rule ended the loop before the
\* overall timeout, after a stall of more than 120 s, with partial data.
C3_Witness ==
    /\ pc = "returned" /\ batch_log = "stuck"
    /\ StalledAt(clock)
    /\ clock < max_wait_time
    /\ extraction_result = <<<<PageB, PageN, PageA>>, 1>>

\* C4: once a poll reports status 'failed', the function has returned None
\* whatever data the response carries, main's only way on is exit code 1, and
\* no page was formatted and the output file was neither opened nor changed.
C4_FailedJobAborts ==
    (Get(status, "status", "None") = "failed")
    => /\ pc \in {"returned", "exit"}
       /\ batch_log = "failed"
       /\ extraction_result = None
       /\ (pc = "exit") => (exit_code = 1)
       /\ pages = <<>> /\ idx = 1 /\ processed_content = <<>>
       /\ opens = 0 /\ ~io_error /\ file = OldFile

\* C4 witness: a 'failed' response that carries data ended the run with
\* exit code 1.
C4_Witness ==
    /\ pc = "exit" /\ exit_code = 1
    /\ Get(status, "status", "None") = "failed"
    /\ DataOf(status) = <<PageB, PageN, PageA>>

\* The crawl response has a true 'success'.
CrawlOk == "success" \in DOMAIN crawl_response /\ crawl_response.success

\* C5: in both scripts, a crawl response without success = true ends the run
\* with exit code 1; no batch job was submitted, no status polled, and the
\* output file was neither opened nor changed.
C5_CrawlFailureStops ==
    (pc # "start" /\ ~CrawlOk)
    => /\ pc = "exit" /\ exit_code = 1
       /\ job_id = NoJob /\ batch_log = "none"
       /\ status = EmptyDict /\ stall_since = NoTime /\ clock = 0
       /\ extraction_result = None
       /\ pages = <<>> /\ processed_content = <<>>
       /\ opens = 0 /\ ~io_error /\ file = OldFile

\* C5 witness: the crawl answered success: false and the run ended with
\* exit code 1.
C5_Witness ==
    /\ pc = "exit" /\ exit_code = 1
    /\ crawl_response = [success |-> FALSE]
    /\ script = "v2"

\* C6: every pass of the loop applies the conditions in the order completed,
\* failed, stall, timeout: 'completed' returns that poll's data and 'failed'
\* returns None also when the stall or timeout condition holds at that poll,
\* the stall rule goes before the timeout, and the loop sleeps only when
\* none of the four holds.
C6_PriorityStep ==
    (pc = "polling" /\ batch_log' # "error")
    => LET st == status'
           s == Get(st, "status", "None")
           c == Get(st, "completed", 0)
           t == Get(st, "total", 0)
           now == IF pc' = "polling" THEN clock' - SleepSeconds ELSE clock'
           stalled == c > 0 /\ c = t - 1 /\ now - last_progress_time > StallSeconds
           timed_out == now - start_time > max_wait_time
           data_returned == /\ pc' = "returned"
                            /\ extraction_result' = <<DataOf(st), CreditsOf(st)>>
       IN  IF s = "completed" THEN data_returned /\ batch_log' = "completed"
           ELSE IF s = "failed"
                THEN pc' = "returned" /\ extraction_result' = None
                     /\ batch_log' = "failed"
           ELSE IF stalled THEN data_returned /\ batch_log' = "stuck"
           ELSE IF timed_out THEN data_returned /\ batch_log' = "timeout"
           ELSE pc' = "polling" /\ extraction_result' = extraction_result

\* C6: every pass of the loop decides by that order.
C6_PriorityOrder == [][C6_PriorityStep]_vars

\* C6 witness: a poll made more than 300 s after the start reported
\* 'completed' and its data was returned as a full success.
C6_Witness ==
    /\ pc = "returned" /\ batch_log = "completed"
    /\ clock > max_wait_time
    /\ extraction_result = <<<<PageB, PageN, PageA>>, 1>>

\* The content field each script reads
ContentOf(page) ==
    IF script = "v1" THEN (IF "markdown" \in DOMAIN page THEN page.markdown ELSE "")
    ELSE (IF "extract" \in DOMAIN page THEN page.extract ELSE "")

HasContent(ps) == \E i \in 1..Len(ps) : ContentOf(ps[i]) # ""

\* The blocks of a page list: one per page with content, in page order
RECURSIVE ExpectedBlocks(_)
ExpectedBlocks(ps) ==
    IF ps = <<>> THEN <<>>
    ELSE LET page == Head(ps)
             md == IF "metadata" \in DOMAIN page THEN page.metadata ELSE EmptyDict
             title == IF "title" \in DOMAIN md THEN md.title ELSE "Untitled"
             url == IF "sourceURL" \in DOMAIN md THEN md.sourceURL ELSE "Unknown URL"
         IN  (IF ContentOf(page) = "" THEN <<>>
              ELSE <<(<<"# ", title, "\nSource: ", url, "\n\n", ContentOf(page),
                       "\n\n---\n">>)>>)
             \o ExpectedBlocks(Tail(ps))

\* The output file holds the document of processed_content
Written == file = [exists |-> TRUE, text |-> FileText(processed_content)]

\* C7 as claimed: every run whose page list has a page with content writes
\* the output file and ends with exit code 0.
C7_ContentAlwaysWritten ==
    (pc = "exit" /\ HasContent(pages)) => (exit_code = 0 /\ Written)

\* C7 amended: in both scripts the blocks formatted so far are those of the
\* pages with content, in order (a page without content adds none), and a
\* run whose page list has a page with content formats every page, reaches
\* the write, and ends with exit code 0 and the document written unless
\* opening or writing the file fails.
C7_MissingContentSkipped ==
    /\ (pc \in {"formatting", "saving"} \/ (pc = "exit" /\ pages # <<>>))
        => processed_content = ExpectedBlocks(SubSeq(pages, 1, idx - 1))
    /\ (pc = "exit" /\ HasContent(pages))
        => /\ idx = Len(pages) + 1
           /\ exit_code = (IF io_error THEN 1 ELSE 0)
           /\ ~io_error => (Written /\ opens = 1)

\* C7 witness: a page without content between two pages with content; the
\* two blocks were written and the run ended with exit code 0.
C7_Witness ==
    /\ pc = "exit" /\ exit_code = 0 /\ script = "v2"
    /\ pages = <<PageB, PageN, PageA>>
    /\ Len(processed_content) = 2
    /\ Written

\* C8: in both scripts, a run whose crawl (and, in v2, extraction) succeeded
\* but whose pages yield no block ends with exit code 1 and leaves the
\* output file unopened.
C8_NoContentAborts ==
    (/\ pc = "exit"
     /\ CrawlOk
     /\ script = "v2" => extraction_result # None
     /\ ~uncaught
     /\ processed_content = <<>>)
    => (exit_code = 1 /\ opens = 0 /\ file = OldFile)

\* C9 as claimed: a run whose polling was stopped by the timeout or by the
\* stall rule ends with a nonzero exit code.
C9_PartialAlwaysAborts ==
    (pc = "exit" /\ batch_log \in {"stuck", "timeout"}) => (exit_code # 0)

\* C9 amended: a run whose polling was stopped by the timeout or by the stall
\* rule goes on with the data of the last status response; it ends with exit
\* code 0 when a page of that data yields a block and the write succeeds, and
\* with exit code 1 only when no page yields a block or the write fails.
C9_PartialContinues ==
    (batch_log \in {"stuck", "timeout"})
    => /\ pc # "polling"
       /\ extraction_result = <<DataOf(status), CreditsOf(status)>>
       /\ (pc = "exit")
           => /\ pages = DataOf(status)
              /\ exit_code = (IF processed_content # <<>> /\ ~io_error THEN 0 ELSE 1)

\* C9 witness: the loop was left through the timeout and the run ended with
\* exit code 0 and a written document.
C9_Witness ==
    /\ pc = "exit" /\ exit_code = 0
    /\ batch_log = "timeout"
    /\ Written

\* C10: in both scripts, a successful crawl that returns an empty page list
\* ends the run with exit code 1, whatever the vendor answers afterwards.
C10_NoUrlsAborts ==
    (pc = "exit" /\ CrawlOk /\ DataOf(crawl_response) = <<>>) => (exit_code = 1)

\* The pipeline stage a state of firecrawl-test-v2.py's main is in. The run
\* is in CRAWLING from its start (INIT has no state of its own: main's first
\* statement is the crawl); ABORTED is an exit with code 1 after extraction
\* had returned data.
StageOf(p, log, result, code) ==
    IF p = "start" THEN "CRAWLING"
    ELSE IF p = "submit" THEN "URLS_COLLECTED"
    ELSE IF p = "polling" THEN "EXTRACTING"
    ELSE IF p = "returned"
         THEN (IF result = None THEN "EXTRACT_FAILED"
               ELSE IF log = "completed" THEN "EXTRACT_DONE"
               ELSE "EXTRACT_PARTIAL")
    ELSE IF p = "formatting" THEN "FORMATTING"
    ELSE IF p = "saving" THEN "WRITING"
    ELSE IF code = 0 THEN "DONE"
    ELSE IF log = "none" THEN "CRAWL_FAILED"
    ELSE IF result = None THEN "EXTRACT_FAILED"
    ELSE "ABORTED"

Stage == StageOf(pc, batch_log, extraction_result, exit_code)

\* The stages that may follow a stage in one step of main. The submission
\* of the batch job is the first step of EXTRACTING, so a submission that
\* fails leads from URLS_COLLECTED to EXTRACT_FAILED.
StageSuccessors(s) ==
    IF s = "CRAWLING" THEN {"CRAWL_FAILED", "URLS_COLLECTED"}
    ELSE IF s = "URLS_COLLECTED" THEN {"EXTRACTING", "EXTRACT_FAILED"}
    ELSE IF s = "EXTRACTING"
         THEN {"EXTRACTING", "EXTRACT_FAILED", "EXTRACT_DONE", "EXTRACT_PARTIAL"}
    ELSE IF s \in {"EXTRACT_DONE", "EXTRACT_PARTIAL"} THEN {"FORMATTING"}
    ELSE IF s = "FORMATTING" THEN {"FORMATTING", "WRITING", "ABORTED"}
    ELSE IF s = "WRITING" THEN {"DONE", "ABORTED"}
    ELSE {}

C11_StageStep ==
    (script = "v2")
    => LET s == Stage
           t == StageOf(pc', batch_log', extraction_result', exit_code')
       IN  /\ IF s \in {"CRAWL_FAILED", "EXTRACT_FAILED"}
              THEN /\ pc = "returned" /\ pc' = "exit" /\ exit_code' = 1
                   /\ t = s
                   /\ UNCHANGED <<clock, status, job_id, format_vars, file_vars>>
              ELSE t \in StageSuccessors(s)
           /\ (pc' = "exit") => (exit_code' = 0) = (t = "DONE")
           /\ (t \in {"CRAWL_FAILED", "EXTRACT_FAILED", "ABORTED"} /\ pc' = "exit")
               => exit_code' = 1
           /\ (file' # file \/ opens' # opens)
               => /\ s = "WRITING" /\ opens = 0
                  /\ extraction_result # None /\ pages = extraction_result[1]
                  /\ idx = Len(pages) + 1

\* C11: every step of firecrawl-test-v2.py's main moves from a stage to
\* itself or to one that follows it in the order CRAWLING, (CRAWL_FAILED or
\* URLS_COLLECTED), EXTRACTING, (EXTRACT_FAILED or EXTRACT_DONE or
\* EXTRACT_PARTIAL), FORMATTING, WRITING, DONE, never back and never over a
\* stage (a run may also end with exit code 1 in FORMATTING or WRITING);
\* after CRAWL_FAILED and EXTRACT_FAILED the only step is the exit with code
\* 1, with no vendor call, no formatting and no file write; and the file is
\* opened at most once, in WRITING, after every returned page was formatted.
C11_StageOrder == [][C11_StageStep]_vars

\* C11 witness: a run went through every stage by way of EXTRACT_PARTIAL and
\* ended in DONE with the file opened once.
C11_Witness ==
    /\ script = "v2" /\ Stage = "DONE"
    /\ batch_log = "stuck"
    /\ opens = 1 /\ idx = Len(pages) + 1 /\ Len(pages) = 3

\* The page list the vendor returned to the run
VendorPages == IF script = "v1" THEN DataOf(crawl_response) ELSE DataOf(status)

\* Number of pieces of one formatted block
BlockPieces == Len(FormatBlock("t", "u", "c"))

\* Reading the document back: the i-th block of a file text, which starts
\* after the two header lines, the blocks and the separators before it.
BlockAt(text, i) ==
    LET first == Len(Header) + (i - 1) * (BlockPieces + 1) + 1
    IN  SubSeq(text, first, first + BlockPieces - 1)

SeparatorAt(text, i) == text[Len(Header) + i * (BlockPieces + 1)]

\* C12: after a write that succeeded, the file read back is the two header
\* lines followed by exactly the N blocks handed to the writer, each at its
\* place in the original order with one newline between neighbours and
\* nothing else; and the blocks handed to the writer are the blocks of the
\* vendor's pages with content, in the order the vendor returned them.
C12_RoundTrip ==
    (pc = "exit" /\ opens = 1 /\ ~io_error)
    => LET N == Len(processed_content)
           text == file.text
       IN  /\ file.exists
           /\ Len(text) = Len(Header) + N * BlockPieces + (N - 1)
           /\ SubSeq(text, 1, Len(Header)) = Header
           /\ \A i \in 1..N : BlockAt(text, i) = processed_content[i]
           /\ \A i \in 1..(N - 1) : SeparatorAt(text, i) = "\n"
           /\ pages = VendorPages
           /\ processed_content = ExpectedBlocks(VendorPages)

\* C12 witness: two different blocks, from the first and the last of the
\* pages the vendor returned, were written and the run ended.
C12_Witness ==
    /\ pc = "exit" /\ exit_code = 0 /\ opens = 1
    /\ VendorPages = <<PageB, PageN, PageA>>
    /\ Len(processed_content) = 2
    /\ BlockAt(file.text, 1) = process_page(PageB)
    /\ BlockAt(file.text, 2) = process_page(PageA)

\* Title and URL of a page, with the defaults for absent metadata
TitleOf(page) ==
    IF "metadata" \in DOMAIN page /\ "title" \in DOMAIN page.metadata
    THEN page.metadata.title ELSE "Untitled"

UrlOf(page) ==
    IF "metadata" \in DOMAIN page /\ "sourceURL" \in DOMAIN page.metadata
    THEN page.metadata.sourceURL ELSE "Unknown URL"

\* The block template, written out
Template(title, url, content) ==
    <<"# ", title, "\nSource: ", url, "\n\n", content, "\n\n---\n">>

\* The non-empty content fields of a page, whichever script reads them
EitherContent(page) ==
    {page[f] : f \in {"markdown", "extract"} \cap DOMAIN page} \ {""}

\* A page was formatted (the loop has moved past it); it is the last one.
PageFormatted == pc \in {"formatting", "saving", "exit"} /\ idx > 1

LastPage == pages[idx - 1]

\* C13 as claimed: in either script, a page with a non-empty markdown or
\* extract field yields exactly one block, made of its title, URL and
\* content.
C13_EitherFieldFormatted ==
    (PageFormatted /\ EitherContent(LastPage) # {})
    => /\ processed_content # <<>>
       /\ \E c \in EitherContent(LastPage) :
            processed_content[Len(processed_content)]
                = Template(TitleOf(LastPage), UrlOf(LastPage), c)

\* C13 amended: each script reads one content field (markdown in
\* firecrawl-test.py, extract in firecrawl-test-v2.py). The pages formatted
\* so far have yielded exactly one block per page whose field of that script
\* is non-empty and none for the others, and the block of such a page is
\* '# <title>\nSource: <url>\n\n<content>\n\n---\n' with that page's title,
\* URL and content ('Untitled' and 'Unknown URL' when absent).
C13_OwnFieldFormatted ==
    PageFormatted
    => /\ Len(processed_content)
            = Cardinality({i \in 1..(idx - 1) : ContentOf(pages[i]) # ""})
       /\ (ContentOf(LastPage) # "")
            => processed_content[Len(processed_content)]
                 = Template(TitleOf(LastPage), UrlOf(LastPage), ContentOf(LastPage))

\* C13 witness: firecrawl-test.py formatted a page that has only extract
\* and then a page that has only markdown and no source URL; the one block
\* is that of the second page, with the default URL.
C13_Witness ==
    /\ script = "v1" /\ pc = "formatting" /\ idx = 3
    /\ pages = <<PageB, PageM>>
    /\ processed_content = <<Template("T3", "Unknown URL", "mM")>>

\* C14: once opening or writing the output file has raised, the run has
\* ended with exit code 1 in both scripts, no exception has left main, and
\* in firecrawl-test-v2.py save_documentation has returned False; and
\* save_documentation returns False only then.
C14_WriteFailureCaught ==
    /\ io_error
        => /\ pc = "exit" /\ exit_code = 1
           /\ ~uncaught
           /\ (script = "v2") => save_returned = "False"
    /\ (save_returned = "False") => io_error
    /\ (script = "v1") => save_returned = "not_called"

\* C14 witness: in firecrawl-test-v2.py the second write failed; the file
\* was left with the first header line and the run ended with exit code 1.
C14_Witness ==
    /\ script = "v2" /\ pc = "exit" /\ exit_code = 1
    /\ io_error /\ save_returned = "False"
    /\ file.text = <<Header[1]>>

\* The longest time from one status query's return to the next one's
PollGap == SleepSeconds + 5

\* C15: the loop is left through the stuck-on-last-page rule only when the
\* reported counts have not changed since a poll made 120 s before (give or
\* take the time from one poll to the next): a change of the counts,
\* also one that keeps completed = total - 1, restarts the stall window.
C15_StallOnlyWithoutProgress ==
    (batch_log = "stuck")
    => /\ stall_since # NoTime
       /\ clock - stall_since > StallSeconds - PollGap

\* The submission was answered with a truthy 'success'.
JobCreated == "success" \in DOMAIN batch_response /\ batch_response.success

\* The id the submission's response names (None when it names none)
SubmittedId == IF "id" \in DOMAIN batch_response THEN batch_response.id ELSE NoJob

\* What holds of the vendor calls of batch_extract_and_watch in every state
C16_CallsInOrder ==
    /\ submissions \in {0, 1}
    /\ (submissions = 0)
        = (script = "v1" \/ pc \in {"start", "submit"}
           \/ (pc = "exit" /\ batch_log = "none"))
    /\ (pc = "polling")
        => /\ JobCreated
           /\ job_id = SubmittedId
    /\ (queried_id # NoQuery)
        => /\ JobCreated
           /\ queried_id = SubmittedId
    /\ (pc # "submit" /\ submissions = 1 /\ ~JobCreated)
        => /\ batch_log \in {"not_started", "error"}
           /\ queried_id = NoQuery /\ status = EmptyDict
    /\ (batch_log \in {"not_started", "error"})
        => /\ pc \in {"returned", "exit"}
           /\ extraction_result = None
           /\ (pc = "exit") => (exit_code = 1)
           /\ pages = <<>> /\ processed_content = <<>>
           /\ opens = 0 /\ file = OldFile /\ save_returned = "not_called"

\* ... and of every step
C16_Step ==
    /\ C16_CallsInOrder'
    /\ (submissions' # submissions) => (pc = "submit" /\ submissions = 0)
    /\ (queried_id' # queried_id \/ status' # status) => (pc = "polling")
    /\ (pc = "polling" /\ pc' = "polling")
        => (job_id' = job_id /\ batch_response' = batch_response)
    /\ (pc = "returned" /\ extraction_result = None)
        => /\ pc' = "exit" /\ exit_code' = 1
           /\ UNCHANGED <<clock, batch_locals, file_vars>>

\* C16: a status query is made only after the one submission of the run was
\* answered with a truthy 'success', and every status query is made with
\* the id of that response; when the submission's response lacks success, or
\* the submission or a status query raises, the function returns None with
\* no further vendor call, and main's only step is the exit with code 1, the
\* output file unopened; the job is submitted once per run, never again.
C16_JobCreationPrecedesPolling == [][C16_Step]_vars

\* C16 witness: the job "job-1" was created and queried with its id until a
\* status query raised; main ended with exit code 1 and no file written.
C16_Witness ==
    /\ pc = "exit" /\ exit_code = 1
    /\ batch_log = "error"
    /\ submissions = 1 /\ queried_id = "job-1"
    /\ clock >= SleepSeconds
    /\ file = OldFile

\* C17: a run of firecrawl-test-v2.py's main has ended with exit code 0
\* exactly when the output file was opened once, written without error
\* and holds the document of at least one block; a run that ended with
\* exit code 1 without a write failure never opened the file, which is
\* as the earlier run left it; and while main runs the file is untouched.
C17_ExitZeroIffWritten ==
    (script = "v2")
    => LET written_once == /\ opens = 1 /\ ~io_error /\ save_returned = "True"
                           /\ Written
       IN  /\ (pc = "exit") => exit_code \in {0, 1}
           /\ (pc = "exit" /\ exit_code = 0)
               => (written_once /\ Len(processed_content) >= 1)
           /\ written_once => (pc = "exit" /\ exit_code = 0)
           /\ (pc = "exit" /\ exit_code = 1 /\ ~io_error)
               => (opens = 0 /\ file = OldFile /\ save_returned = "not_called")
           /\ (pc # "exit")
               => (exit_code = Running /\ opens = 0 /\ file = OldFile)

\* C17 witness: the job completed, two blocks were written in one successful
\* write over the earlier file, and the exit code is 0.
C17_Witness ==
    /\ script = "v2" /\ pc = "exit" /\ exit_code = 0
    /\ batch_log = "completed" /\ save_returned = "True"
    /\ opens = 1 /\ Len(processed_content) = 2
    /\ file # OldFile

\* The type of a watcher event
TypeOf(update) == IF "type" \in DOMAIN update THEN update.type ELSE "None"

\* The pages of the 'crawl.page' events of a stream, in arrival order
RECURSIVE PagesOfStream(_)
PagesOfStream(stream) ==
    IF stream = <<>> THEN <<>>
    ELSE LET update == Head(stream) IN
         (IF TypeOf(update) = "crawl.page" /\ "data" \in DOMAIN update
          THEN update.data ELSE <<>>)
         \o PagesOfStream(Tail(stream))

FailedAt(stream) == {i \in 1..Len(stream) : TypeOf(stream[i]) = "crawl.failed"}

\* C18: unless the watcher raises, crawl_site returns None at the first
\* 'crawl.failed' event of the stream, whatever pages came before it, and
\* takes no event after it; when the stream has none, it takes every event,
\* also those after a 'crawl.completed', and returns the pages of all
\* 'crawl.page' events of the whole stream in arrival order. Until it
\* returns it holds the pages of the events taken so far.
C18_EventStream ==
    /\ (site_pc = "watching")
        => /\ FailedAt(SubSeq(watcher, 1, consumed)) = {}
           /\ crawl_data = PagesOfStream(SubSeq(watcher, 1, consumed))
    /\ (site_pc = "returned" /\ site_log # "error")
        => IF FailedAt(watcher) # {}
           THEN /\ site_result.none /\ site_log = "failed"
                /\ consumed \in FailedAt(watcher)
                /\ \A i \in FailedAt(watcher) : consumed <= i
           ELSE /\ ~site_result.none /\ site_log = "success"
                /\ consumed = Len(watcher)
                /\ site_result.data = PagesOfStream(watcher)

\* C18 witness: a page event, 'crawl.completed', and another page event;
\* the pages of both page events were returned, in that order.
C18_Witness ==
    /\ site_pc = "returned" /\ ~site_result.none
    /\ Len(watcher) = 3 /\ TypeOf(watcher[2]) = "crawl.completed"
    /\ site_result.data = <<PageB, PageM, PageA>>

====
